---- MODULE Spec2Model ----
(***************************************************************************)
(* car.py: a remote-control client.  The main thread builds a              *)
(* WebSocketApp and calls run_forever(); the socket library calls back     *)
(* on_open / on_message / on_error / on_close from run_forever.  on_open   *)
(* starts one background thread (run) that opens a video capture, reads a  *)
(* first frame for its dimensions and then loops: read a frame, send a     *)
(* fixed command on the socket, print it.                                  *)
(*                                                                         *)
(* The two client libraries (socket, video capture) are the environment:   *)
(* whether a connect, a read or a send succeeds, and when a message, an    *)
(* error or a close arrives, is a nondeterministic choice.                 *)
(***************************************************************************)
EXTENDS Integers, Sequences, FiniteSets, TLC

VARIABLES
    mainPc,   \* position of the main thread (inside run_forever)
    sock,     \* state of the socket object held by ws
    arg,      \* argument of the callback the library is about to call
    thr,      \* the threads started by on_open, in start order
    wire,     \* history: payloads ws.send has delivered, in order
    stdout,   \* history: what print has written, in order
    n         \* history: event counters

vars == <<mainPc, sock, arg, thr, wire, stdout, n>>

(* ------------------------------ bounds -------------------------------- *)

\* Counters stop growing here; the bounded specification stops at it.
MaxCount == 3
\* The stdout history stops growing at this length.
MaxOut == 3

(* --------------------------- program constants ------------------------ *)

\* angle = 0.0 and throttle = 0.2, held in tenths.
angle == 0
throttle == 2

\* Python's None, and a frame, as typed values.
None == [type |-> "NoneType"]

\* Messages the server may push, and errors the library may report.
Messages == {"msg"}
Errors == {"error"}

\* Frames the capture may deliver: an image with a shape and some content.
Frames == { [type |-> "ndarray", shape |-> <<1, 2>>, px |-> 0],
            [type |-> "ndarray", shape |-> <<2, 1>>, px |-> 1] }

\* str() of a float with one decimal, as an f-string renders it.
FormatFloat(tenths) == ToString(tenths \div 10) \o "." \o ToString(tenths % 10)

\* The f-string of the loop body.
message(a, t) ==
    "{\"angle\":" \o FormatFloat(a) \o ",\"throttle\":" \o FormatFloat(t)
        \o ",\"drive_mode\":\"user\",\"recording\":false}"

(* ------------------------------ histories ----------------------------- *)

Inc(c) == IF c < MaxCount THEN c + 1 ELSE c

Out(s, x) == IF Len(s) < MaxOut THEN Append(s, x) ELSE s

Count(f) == [n EXCEPT ![f] = Inc(n[f])]

(* ------------------------------ threads ------------------------------- *)

\* A thread as _thread.start_new_thread(run, ()) leaves it: about to run.
NewThread ==
    [pc |-> "VideoCapture", state |-> "running", cap |-> "none",
     ret |-> FALSE, frame |-> None, height |-> None, width |-> None,
     exc |-> "none"]

Threads == DOMAIN thr

Running(t) == thr[t].state = "running" /\ mainPc # "exited"

InLoop(t) == thr[t].pc \in {"read", "send", "print"}

(* --------------------------- the main thread -------------------------- *)

\* Variant: run() is also started from the module body, before run_forever.
Init_threadAtStart ==
    /\ mainPc = "run_forever"
    /\ sock = "unconnected"
    /\ arg = None
    /\ thr = <<NewThread>>
    /\ wire = << >>
    /\ stdout = << >>
    /\ n = [connects |-> 0, opens |-> 0, capOpens |-> 0, frames |-> 0,
            loopReads |-> 0, sendCalls |-> 0, sendFails |-> 0, sent |-> 0,
            printed |-> 0, tick |-> 0]

Init ==
    /\ mainPc = "run_forever"
    /\ sock = "unconnected"
    /\ arg = None
    /\ thr = << >>
    /\ wire = << >>
    /\ stdout = << >>
    /\ n = [connects |-> 0, opens |-> 0, capOpens |-> 0, frames |-> 0,
            loopReads |-> 0, sendCalls |-> 0, sendFails |-> 0, sent |-> 0,
            printed |-> 0, tick |-> 0]

\* ws.run_forever(): the library connects; on success it will call on_open.
ConnectOk ==
    /\ mainPc = "run_forever"
    /\ sock' = "open"
    /\ mainPc' = "on_open"
    /\ n' = Count("connects")
    /\ UNCHANGED <<arg, thr, wire, stdout>>

\* ws.run_forever(): the connect fails; the library will call on_error.
ConnectFail ==
    /\ mainPc = "run_forever"
    /\ \E e \in Errors : arg' = e
    /\ mainPc' = "on_error"
    /\ UNCHANGED <<sock, thr, wire, stdout, n>>

\* on_open(ws): start the thread and return to the library's dispatch loop.
on_open ==
    /\ mainPc = "on_open"
    /\ thr' = Append(thr, NewThread)
    /\ mainPc' = "dispatch"
    /\ n' = Count("opens")
    /\ UNCHANGED <<sock, arg, wire, stdout>>

\* The dispatch loop of run_forever receives a data frame.
Receive ==
    /\ mainPc = "dispatch"
    /\ \E m \in Messages : arg' = m
    /\ mainPc' = "on_message"
    /\ UNCHANGED <<sock, thr, wire, stdout, n>>

\* The dispatch loop hits an error (socket error, ping timeout).
Fault ==
    /\ mainPc = "dispatch"
    /\ \E e \in Errors : arg' = e
    /\ mainPc' = "on_error"
    /\ UNCHANGED <<sock, thr, wire, stdout, n>>

\* The dispatch loop sees the connection closed by the peer.
PeerClose ==
    /\ mainPc = "dispatch"
    /\ mainPc' = "teardown"
    /\ arg' = None
    /\ UNCHANGED <<sock, thr, wire, stdout, n>>

\* on_message(ws, message): print(message).
on_message ==
    /\ mainPc = "on_message"
    /\ stdout' = Out(stdout, arg)
    /\ mainPc' = "dispatch"
    /\ arg' = None
    /\ UNCHANGED <<sock, thr, wire, n>>

\* Variant: on_error also stops the control loop.
on_error_stopsLoop ==
    /\ mainPc = "on_error"
    /\ stdout' = Out(stdout, arg)
    /\ mainPc' = "teardown"
    /\ arg' = None
    /\ thr' = [t \in Threads |-> [thr[t] EXCEPT !.state = "killed"]]
    /\ UNCHANGED <<sock, wire, n>>

\* on_error(ws, error): print(error); the library then tears down.
on_error ==
    /\ mainPc = "on_error"
    /\ stdout' = Out(stdout, arg)
    /\ mainPc' = "teardown"
    /\ arg' = None
    /\ UNCHANGED <<sock, thr, wire, n>>

\* The library closes the socket and will call on_close.
Teardown ==
    /\ mainPc = "teardown"
    /\ sock' = "closed"
    /\ mainPc' = "on_close"
    /\ UNCHANGED <<arg, thr, wire, stdout, n>>

\* on_close(ws, close_status_code, close_msg): print("### closed ###").
on_close ==
    /\ mainPc = "on_close"
    /\ stdout' = Out(stdout, "### closed ###")
    /\ mainPc' = "return"
    /\ UNCHANGED <<sock, arg, thr, wire, n>>

\* Variant: run_forever is called again after it returns (a reconnect loop).
Exit_reconnect ==
    /\ mainPc = "return"
    /\ mainPc' = "run_forever"
    /\ sock' = "unconnected"
    /\ UNCHANGED <<arg, thr, wire, stdout, n>>

\* run_forever returns, the main module ends and the process with it:
\* threads started with _thread do not keep the interpreter alive.
Exit ==
    /\ mainPc = "return"
    /\ mainPc' = "exited"
    /\ thr' = [t \in Threads |->
                 IF thr[t].state = "running"
                 THEN [thr[t] EXCEPT !.state = "killed"] ELSE thr[t]]
    /\ UNCHANGED <<sock, arg, wire, stdout, n>>

(* ------------------------- the background thread ---------------------- *)

\* cap = cv2.VideoCapture(video_address)
VideoCapture(t) ==
    /\ Running(t) /\ thr[t].pc = "VideoCapture"
    /\ thr' = [thr EXCEPT ![t].cap = "opened", ![t].pc = "first_read"]
    /\ n' = Count("capOpens")
    /\ UNCHANGED <<mainPc, sock, arg, wire, stdout>>

\* cap.read(): (True, frame) or (False, None).
ReadResults == { [ret |-> TRUE, frame |-> f] : f \in Frames }
                   \cup { [ret |-> FALSE, frame |-> None] }

FramesAfter(r) == IF r.ret THEN Count("frames") ELSE n

\* ret, frame = cap.read()   (before the loop)
FirstRead(t) ==
    /\ Running(t) /\ thr[t].pc = "first_read"
    /\ \E r \in ReadResults :
         /\ thr' = [thr EXCEPT ![t].ret = r.ret, ![t].frame = r.frame,
                               ![t].pc = "shape"]
         /\ n' = FramesAfter(r)
    /\ UNCHANGED <<mainPc, sock, arg, wire, stdout>>

\* Variant: the first frame is sent for too (the read sits at the loop's end).
AfterShape_sendFirst == "send"

\* Where the thread goes once it has the dimensions: into the loop, whose
\* first statement is another cap.read().
AfterShape == "read"

\* Variant: a missing first frame is tolerated and the loop is entered.
Shape_skipNone(t) ==
    /\ Running(t) /\ thr[t].pc = "shape"
    /\ IF thr[t].frame = None
       THEN thr' = [thr EXCEPT ![t].pc = "read"]
       ELSE thr' = [thr EXCEPT ![t].height = thr[t].frame.shape[1],
                               ![t].width = thr[t].frame.shape[2],
                               ![t].pc = "read"]
    /\ UNCHANGED <<mainPc, sock, arg, wire, stdout, n>>

\* height = frame.shape[0]; width = frame.shape[1]: None has no shape, the
\* AttributeError is not caught and ends the thread.
Shape(t) ==
    /\ Running(t) /\ thr[t].pc = "shape"
    /\ IF thr[t].frame = None
       THEN thr' = [thr EXCEPT ![t].state = "raised",
                               ![t].exc = "AttributeError"]
       ELSE thr' = [thr EXCEPT ![t].height = thr[t].frame.shape[1],
                               ![t].width = thr[t].frame.shape[2],
                               ![t].pc = AfterShape]
    /\ UNCHANGED <<mainPc, sock, arg, wire, stdout, n>>

\* Variant: a failed read leaves the loop (if not ret: break).
AfterRead_break(r) == IF r.ret THEN "send" ELSE "done"

\* Variant: a failed read skips the send (if not ret: continue).
AfterRead_continue(r) == IF r.ret THEN "send" ELSE "read"

\* Where the loop goes after its cap.read(): ret is not looked at.
AfterRead(r) == "send"

\* while True: ret, frame = cap.read()
LoopRead(t) ==
    /\ Running(t) /\ thr[t].pc = "read"
    /\ \E r \in ReadResults :
         /\ thr' = [thr EXCEPT ![t].ret = r.ret, ![t].frame = r.frame,
                               ![t].pc = AfterRead(r)]
         /\ n' = [FramesAfter(r) EXCEPT !.loopReads = Inc(n.loopReads)]
    /\ UNCHANGED <<mainPc, sock, arg, wire, stdout>>

\* Variant: the angle is taken from the frame that was read.
Command_fromFrame(t) ==
    message(IF thr[t].ret THEN thr[t].frame.px ELSE angle, throttle)

\* The payload of an iteration: angle and throttle are set to constants
\* and formatted; the frame takes no part.
Command(t) == message(angle, throttle)

\* Variant: the exception of ws.send is caught and the loop goes on.
SendRaised_retry(t) == [thr EXCEPT ![t].pc = "read"]

\* Variant: the exception of ws.send is caught and the print still runs.
SendRaised_fallthrough(t) == [thr EXCEPT ![t].pc = "print"]

\* The thread after a ws.send that raised: the exception is not caught.
SendRaised(t) ==
    [thr EXCEPT ![t].state = "raised", ![t].exc = "SendError"]

\* ws.send(message): raises when the socket is not open, and may raise
\* while it is (a network error); otherwise the payload is delivered.
Send(t) ==
    /\ Running(t) /\ thr[t].pc = "send"
    /\ \/ /\ sock = "open"
          /\ wire' = Out(wire, Command(t))
          /\ thr' = [thr EXCEPT ![t].pc = "print"]
          /\ n' = [Count("sendCalls") EXCEPT !.sent = Inc(n.sent),
                                              !.tick = 1 - n.tick]
       \/ /\ thr' = SendRaised(t)
          /\ n' = [Count("sendCalls") EXCEPT !.sendFails = Inc(n.sendFails)]
          /\ UNCHANGED wire
    /\ UNCHANGED <<mainPc, sock, arg, stdout>>

\* print(message), then the next iteration.
PrintMessage(t) ==
    /\ Running(t) /\ thr[t].pc = "print"
    /\ stdout' = Out(stdout, Command(t))
    /\ thr' = [thr EXCEPT ![t].pc = "read"]
    /\ n' = Count("printed")
    /\ UNCHANGED <<mainPc, sock, arg, wire>>

(* --------------------------- specifications --------------------------- *)

\* The histories have room: the bounded specification stops beyond this.
Bounded == n.loopReads < MaxCount /\ Len(stdout) < MaxOut

Next ==
    \/ Bounded /\ ConnectOk
    \/ Bounded /\ ConnectFail
    \/ Bounded /\ on_open
    \/ Bounded /\ Receive
    \/ Bounded /\ Fault
    \/ Bounded /\ PeerClose
    \/ Bounded /\ on_message
    \/ Bounded /\ on_error
    \/ Bounded /\ Teardown
    \/ Bounded /\ on_close
    \/ Bounded /\ Exit
    \/ \E t \in Threads : Bounded /\ VideoCapture(t)
    \/ \E t \in Threads : Bounded /\ FirstRead(t)
    \/ \E t \in Threads : Bounded /\ Shape(t)
    \/ \E t \in Threads : Bounded /\ LoopRead(t)
    \/ \E t \in Threads : Bounded /\ Send(t)
    \/ \E t \in Threads : Bounded /\ PrintMessage(t)

Spec == Init /\ [][Next]_vars

\* A step of thread t.
ThreadStep(t) ==
    \/ VideoCapture(t)
    \/ FirstRead(t)
    \/ Shape(t)
    \/ LoopRead(t)
    \/ Send(t)
    \/ PrintMessage(t)

\* The program without the stop at the bounds: the histories saturate and
\* the loop goes on.
FairNext ==
    \/ ConnectOk
    \/ ConnectFail
    \/ on_open
    \/ Receive
    \/ Fault
    \/ PeerClose
    \/ on_message
    \/ on_error
    \/ Teardown
    \/ on_close
    \/ Exit
    \/ \E t \in Threads : VideoCapture(t)
    \/ \E t \in Threads : FirstRead(t)
    \/ \E t \in Threads : Shape(t)
    \/ \E t \in Threads : LoopRead(t)
    \/ \E t \in Threads : Send(t)
    \/ \E t \in Threads : PrintMessage(t)

\* The scheduler is fair to the background thread: a thread that can take
\* a step eventually takes one.  Nothing is assumed of the network.
FairSpec ==
    Init /\ [][FairNext]_vars /\ WF_vars(\E t \in Threads : ThreadStep(t))

(* -------------------------------- claims ------------------------------ *)

\* ws.send calls that are about to happen: threads standing at the send.
PendingSends ==
    Cardinality({t \in Threads : thr[t].pc = "send" /\ thr[t].state # "raised"})

Alive(t) == Running(t) /\ InLoop(t)

SomeAlive == \E t \in Threads : Alive(t)

\* C1 as stated: the number of commands sent equals the number of frames
\* captured (the first one included), or is one less.
C1_SentPerCapturedFrame ==
    n.sendCalls = n.frames \/ n.sendCalls = n.frames - 1

\* C1 amended: every cap.read() of the loop, whether or not it returned a
\* frame, is followed by exactly one ws.send call before the next read; the
\* read before the loop is followed by none.  The number of ws.send calls
\* equals the number of loop reads, or is one less while a send is pending.
C1_SendPerLoopRead ==
    /\ n.sendCalls + PendingSends = n.loopReads
    /\ PendingSends <= 1
    /\ \A t \in Threads : thr[t].pc \in {"first_read", "shape"} => n.sendCalls = 0

C1_Witness ==
    n.frames = 3 /\ n.loopReads = 2 /\ n.sendCalls = 2

\* C2: every payload delivered by ws.send is the one fixed message, whatever
\* the frames read, the messages received and the iterations gone before.
C2_FixedPayload ==
    \A i \in DOMAIN wire :
        wire[i] = "{\"angle\":0.0,\"throttle\":0.2,\"drive_mode\":\"user\",\"recording\":false}"

C2_Witness ==
    /\ Len(wire) >= 2
    /\ \E i \in DOMAIN stdout : stdout[i] \in Messages
    /\ \E t \in Threads : thr[t].ret /\ thr[t].frame.px = 1

\* C3: the open event comes after the connect, the video capture is opened
\* only after the open event, and no command is sent before both; while
\* the socket has not opened there is no thread, no capture and no send.
C3_StartupOrder ==
    /\ n.opens > 0 => n.connects > 0
    /\ thr # << >> => n.opens > 0
    /\ n.capOpens > 0 => n.opens > 0
    /\ n.sendCalls > 0 => n.capOpens > 0 /\ n.opens > 0
    /\ n.connects = 0 => thr = << >> /\ n.capOpens = 0 /\ wire = << >>

C3_Witness ==
    n.connects = 1 /\ n.opens = 1 /\ n.capOpens = 1 /\ n.sendCalls > 0

\* C4: at most one control-loop thread exists, at most one video capture
\* is ever opened, and two sends are never in flight together.
C4_SingleThread ==
    /\ Len(thr) <= 1
    /\ n.connects <= 1 /\ n.opens <= 1
    /\ n.capOpens <= 1
    /\ Cardinality({t \in Threads : thr[t].pc = "send"}) <= 1

C4_Witness ==
    Len(thr) = 1 /\ thr[1].pc = "send" /\ n.sendCalls > 0

\* C5: a step of on_message, on_error or on_close changes only stdout (and
\* returns to the library): the socket, the threads, the capture, what was
\* sent and every counter stay as they were.
C5_CallbacksOnlyPrint ==
    [][(mainPc \in {"on_message", "on_error", "on_close"} /\ mainPc' # mainPc)
          => /\ UNCHANGED <<sock, thr, wire, n>>
             /\ Len(stdout') >= Len(stdout)]_vars

C5_Witness ==
    /\ \E i \in DOMAIN stdout : stdout[i] = "### closed ###"
    /\ \E i \in DOMAIN stdout : stdout[i] \in Errors
    /\ \E i \in DOMAIN stdout : stdout[i] \in Messages
    /\ SomeAlive

\* C6: once the socket has closed or a ws.send has raised, no connect, no
\* open event, no new thread and no second opening of the video capture
\* happens, and no command is delivered.
C6_NoRecovery ==
    [][(sock = "closed" \/ n.sendFails > 0)
          => /\ n'.connects = n.connects
             /\ n'.opens = n.opens
             /\ Len(thr') = Len(thr)
             /\ n'.capOpens <= 1
             /\ n'.sent = n.sent /\ wire' = wire
             /\ sock' # "open" \/ sock = "open"]_vars

C6_Witness ==
    sock = "closed" /\ n.sendFails > 0 /\ n.sent > 0 /\ mainPc = "exited"

\* C7: a thread in the loop leaves it only by a ws.send that raised or by
\* the end of the process; and under fair scheduling, while the loop is
\* alive another command is always delivered later.
C7_LoopForever ==
    /\ [][\A t \in Threads :
             (Alive(t) /\ ~Alive(t)')
                => \/ thr'[t].state = "raised" /\ thr'[t].exc = "SendError"
                   \/ mainPc' = "exited"]_vars
    /\ \A b \in {0, 1} :
          (SomeAlive /\ n.tick = b) ~> (n.tick # b \/ ~SomeAlive)

C7_Witness ==
    SomeAlive /\ n.sent = MaxCount /\ n.loopReads = MaxCount

\* C8: every cap.read() of the loop is followed by the send, whether it
\* returned a frame or not.
C8_ReadResultIgnored ==
    [][n'.loopReads # n.loopReads
          => \E t \in Threads : thr[t].pc = "read" /\ thr'[t].pc = "send"]_vars

C8_Witness ==
    /\ n.frames = 1 /\ n.sent >= 2
    /\ \E t \in Threads : thr[t].pc = "print" /\ ~thr[t].ret /\ sock = "open"

\* C9: a first read that returns no frame ends the thread with an
\* AttributeError before the loop; that step leaves the socket and the main
\* thread as they were, no command is sent and no thread is started again.
C9_FirstReadFails ==
    /\ [](\A t \in Threads :
            thr[t].exc = "AttributeError"
               => /\ thr[t].pc = "shape" /\ thr[t].state = "raised"
                  /\ n.loopReads = 0 /\ n.sendCalls = 0 /\ wire = << >>
                  /\ Len(thr) = 1)
    /\ [][\A t \in Threads :
             (thr[t].pc = "shape" /\ thr[t].frame = None /\ mainPc' = mainPc
                 /\ <<thr'[t].pc, thr'[t].state>> # <<thr[t].pc, thr[t].state>>)
                => /\ thr'[t].exc = "AttributeError"
                   /\ UNCHANGED <<sock, mainPc>>]_vars

C9_Witness ==
    /\ \E t \in Threads : thr[t].exc = "AttributeError"
    /\ sock = "open" /\ mainPc = "dispatch"
    /\ \E i \in DOMAIN stdout : stdout[i] \in Messages

\* C10: a command is printed only after it was delivered: printed <= sent
\* <= printed + 1, and a command whose send raised is not printed.
C10_PrintAfterSend ==
    /\ n.printed <= n.sent
    /\ n.sent <= n.printed + 1
    /\ n.sent + n.sendFails = n.sendCalls
    /\ n.printed = Cardinality({i \in DOMAIN stdout : stdout[i] = message(angle, throttle)})

C10_Witness ==
    n.sendFails > 0 /\ n.printed > 0 /\ n.sent = n.printed

====
